---- MODULE Spec2Model ----
(***************************************************************************)
(* Model of src/lib.rs: an arena-backed graph (SlotMap<NodeIdx, T>) and    *)
(* its traversals depth_first_search, dependency_order and                 *)
(* breath_first_search.                                                    *)
(*                                                                         *)
(* A NodeIdx is modelled by its identity (a name).  The arena is the       *)
(* function graph from the live keys to their children() lists; a key      *)
(* outside DOMAIN graph has no live payload (graph.nodes().get(k) is None).*)
(* The SecondaryMaps of the traversals are modelled as sets / functions    *)
(* keyed by key identity (distinct keys occupy distinct slots).            *)
(***************************************************************************)
EXTENDS Integers, Sequences, FiniteSets, TLC

\* ---------------------------------------------------------------- bounds
\* the universe of NodeIdx values handed out by the arena
Keys == {"A", "B", "C", "D"}
\* keys that may have been removed from the arena (no live payload)
Dangling == {"D"}
\* total number of child-list entries in the arena of a depth-first or
\* dependency-order run
MaxEdges == 4
\* total number of child-list entries in the arena of a breadth-first run
MaxBfsEdges == 3
\* length of the output Vec beyond which a run is not followed further
MaxVisit == 8
\* number of visitor calls beyond which a breadth-first run is not followed
MaxCalls == 4
\* number of visitor calls that change the graph in one run
MaxMutations == 1

VARIABLES
    graph,              \* Graph.nodes: live key -> children() list
    starts,             \* the starts argument
    stack,              \* let mut stack
    in_stack,           \* let mut in_stack (SecondaryMap<NodeIdx, ()>)
    visit,              \* let mut visit (the returned Vec)
    pending_children,   \* dependency_order: SecondaryMap<NodeIdx, usize>
    visited,            \* dependency_order: SecondaryMap<NodeIdx, ()>
    start,              \* breath_first_search: the start argument
    queue,              \* breath_first_search: let mut queue (VecDeque)
    in_queue,           \* breath_first_search: let mut in_queue
    node,               \* breath_first_search: the dequeued node
    next_move,          \* breath_first_search: let next_move = visit(params)
    pc,                 \* position of the call
    pushed,             \* history: depth_first_search, pushes per key
    calls,              \* history: number of visitor calls made
    mutations,          \* history: number of visitor calls that changed the graph
    before,             \* history: the graph as the last visitor call found it
    tally,              \* history: per key and directive, how often it was returned
    dot,                \* to_dot: let mut dot (the returned String)
    work                \* history: dependency_order, pops, counter insertions
                        \* and expansions made so far

vars == <<graph, starts, stack, in_stack, visit, pending_children, visited,
          start, queue, in_queue, node, next_move, pc, pushed, calls, mutations,
          before, tally, dot, work>>

dfsIdle == <<pushed>>
depIdle == <<pending_children, visited, work>>
dotIdle == <<dot>>
bfsIdle == <<start, queue, in_queue, node, next_move, calls, mutations, before, tally>>

\* ------------------------------------------------------------ the arena
SeqsUpTo(S, n) == UNION {[1..k -> S] : k \in 0..n}

\* the arena as the caller populated it: every key of Keys outside Dangling is
\* live, a key of Dangling may have been removed, and the child lists hold at
\* most m entries in total
InitArena(m) ==
    \E live \in {Keys \ d : d \in SUBSET Dangling} :
    \E a \in SeqsUpTo(Keys, m) :
    \E b \in SeqsUpTo(Keys, m - Len(a)) :
    \E c \in SeqsUpTo(Keys, m - Len(a) - Len(b)) :
    \E d \in SeqsUpTo(Keys, IF "D" \in live THEN m - Len(a) - Len(b) - Len(c) ELSE 0) :
        graph = [k \in live |-> CASE k = "A" -> a [] k = "B" -> b [] k = "C" -> c [] OTHER -> d]

\* graph.nodes().get(k).is_some()
Live(g, k) == k \in DOMAIN g

\* graph.nodes().get(k).unwrap().children()
children(g, k) == g[k]

\* the starts slices handed to depth_first_search and dependency_order:
\* empty, single, repeated, ordered both ways, and with a dangling key
StartLists ==
    {<<>>, <<"A">>, <<"D">>, <<"A", "A">>, <<"A", "B">>, <<"B", "A">>, <<"A", "D">>}

Range(s) == {s[i] : i \in 1..Len(s)}

Front(s) == SubSeq(s, 1, Len(s) - 1)

Last(s) == s[Len(s)]

\* number of occurrences of k in the sequence s
Count(s, k) == Cardinality({i \in 1..Len(s) : s[i] = k})

\* total number of child-list entries of the arena
Edges(g) == LET RECURSIVE Sum(_)
                Sum(S) == IF S = {} THEN 0
                          ELSE LET n == CHOOSE x \in S : TRUE
                               IN  Len(g[n]) + Sum(S \ {n})
            IN  Sum(DOMAIN g)

\* the keys reachable from the keys S through the children relation (S included)
Reach(g, S) ==
    LET RECURSIVE Close(_)
        Close(X) == LET Y == X \cup UNION {Range(g[k]) : k \in X \cap DOMAIN g}
                    IN  IF Y = X THEN X ELSE Close(Y)
    IN  Close(S)

\* the arenas a traversal from S is run on: the payload of a key that cannot be
\* reached from S is never read, so such keys carry no children
ArenaFor(g, S) == \A k \in DOMAIN g : g[k] # <<>> => k \in Reach(g, S)

\* enum NextMove
NextMove == {"Postpone", "TerminateBranch", "VisitChildren"}

\* next_move before the first visitor call has returned
NoMove == "unset"

\* -------------------------------------------------- depth_first_search
\* DfsRemove with the removal forgotten: the set becomes "ever pushed"
DfsRemove_Kept(ins, n) == ins

\* line 56: in_stack.remove(node)
DfsRemove(ins, n) == ins \ {n}

\* DfsPushChildren looking at the first child only
DfsPushChildren_FirstOnly(st, ins, cs) ==
    IF cs = <<>> \/ Head(cs) \in ins THEN [stack |-> st, in_stack |-> ins]
    ELSE [stack |-> Append(st, Head(cs)), in_stack |-> ins \cup {Head(cs)}]

RECURSIVE DfsPushChildren(_, _, _)
\* lines 58-64: for &child in children { if in_stack.contains_key(child)
\* { continue; } stack.push(child); in_stack.insert(child, ()); }
DfsPushChildren(st, ins, cs) ==
    IF cs = <<>> THEN [stack |-> st, in_stack |-> ins]
    ELSE IF Head(cs) \in ins
         THEN DfsPushChildren(st, ins, Tail(cs))
         ELSE DfsPushChildren(Append(st, Head(cs)), ins \cup {Head(cs)}, Tail(cs))

\* DfsEmit putting the popped node in front of the output
DfsEmit_Front(out, n) == <<n>> \o out

\* line 57: visit.push(node)
DfsEmit(out, n) == Append(out, n)

\* lines 48-54: seed the stack with every start
DfsSeed ==
    /\ pc = "dfs_call"
    /\ stack' = starts
    /\ in_stack' = Range(starts)
    /\ visit' = <<>>
    /\ pushed' = [k \in Keys |-> Count(starts, k)]
    /\ pc' = "dfs_loop"
    /\ UNCHANGED <<graph, starts, dotIdle, depIdle, bfsIdle>>

\* lines 55-65: one iteration of while let Some(node) = stack.pop()
DfsStep ==
    /\ pc = "dfs_loop"
    /\ stack # <<>>
    /\ Len(visit) < MaxVisit
    /\ LET n == Last(stack)
           ins  == DfsRemove(in_stack, n)
       IN  /\ visit' = DfsEmit(visit, n)
           /\ IF Live(graph, n)
              THEN LET r == DfsPushChildren(Front(stack), ins, children(graph, n))
                   IN  /\ stack' = r.stack
                       /\ in_stack' = r.in_stack
                       /\ pc' = "dfs_loop"
              ELSE \* line 58: get(node).unwrap() on None
                   /\ stack' = Front(stack)
                   /\ in_stack' = ins
                   /\ pc' = "dfs_panic"
    /\ pushed' = [k \in Keys |->
                    pushed[k] + Count(SubSeq(stack', Len(stack), Len(stack')), k)]
    /\ UNCHANGED <<graph, starts, dotIdle, depIdle, bfsIdle>>

\* line 66: the stack is empty, visit is returned
DfsReturn ==
    /\ pc = "dfs_loop"
    /\ stack = <<>>
    /\ pc' = "dfs_done"
    /\ UNCHANGED <<graph, starts, dotIdle, stack, in_stack, visit, depIdle, dfsIdle, bfsIdle>>

\* ---------------------------------------------------- dependency_order
\* Edge.parent of a start edge (Option::None)
NoParent == "None"

\* struct Edge { parent: Option<NodeIdx>, child: NodeIdx }
Edge(p, c) == [parent |-> p, child |-> c]

RECURSIVE DepPushChildren_NoAssert(_, _, _, _)
\* DepPushChildren with the assert_eq! of line 105 left out
DepPushChildren_NoAssert(st, pend, n, cs) ==
    IF cs = <<>> THEN [stack |-> st, pending_children |-> pend, status |-> "ok"]
    ELSE LET child == Head(cs)
         IN  IF child \in DOMAIN pend
             THEN IF pend[n] = 0
                  THEN [stack |-> st, pending_children |-> pend, status |-> "underflow"]
                  ELSE DepPushChildren_NoAssert(st, [pend EXCEPT ![n] = @ - 1], n, Tail(cs))
             ELSE DepPushChildren_NoAssert(Append(st, Edge(n, child)), pend, n, Tail(cs))

RECURSIVE DepPushChildren_AlwaysPush(_, _, _, _)
\* DepPushChildren without the contains_key check of line 104: every child
\* gets an edge
DepPushChildren_AlwaysPush(st, pend, n, cs) ==
    IF cs = <<>> THEN [stack |-> st, pending_children |-> pend, status |-> "ok"]
    ELSE DepPushChildren_AlwaysPush(Append(st, Edge(n, Head(cs))), pend, n, Tail(cs))

RECURSIVE DepPushChildren_NoDecrement(_, _, _, _)
\* DepPushChildren without the "-= 1" of line 106 for a child already resolved
DepPushChildren_NoDecrement(st, pend, n, cs) ==
    IF cs = <<>> THEN [stack |-> st, pending_children |-> pend, status |-> "ok"]
    ELSE LET child == Head(cs)
         IN  IF child \in DOMAIN pend
             THEN IF pend[child] # 0
                  THEN [stack |-> st, pending_children |-> pend, status |-> "assert"]
                  ELSE DepPushChildren_NoDecrement(st, pend, n, Tail(cs))
             ELSE DepPushChildren_NoDecrement(Append(st, Edge(n, child)), pend, n, Tail(cs))

\* The counters are usize.  "-= 1" on a counter that is 0 panics in a build with
\* overflow checks and wraps to 2^64 - 1 in one without; the position
\* "dep_underflow" stands for either outcome and such a run is not followed.
RECURSIVE DepPushChildren(_, _, _, _)
\* lines 103-113: for &child in children(node): a child that already has a
\* pending counter must have counter 0 (assert_eq!) and decrements node's
\* counter; any other child gets an edge pushed
DepPushChildren(st, pend, n, cs) ==
    IF cs = <<>> THEN [stack |-> st, pending_children |-> pend, status |-> "ok"]
    ELSE LET child == Head(cs)
         IN  IF child \in DOMAIN pend
             THEN IF pend[child] # 0
                  THEN [stack |-> st, pending_children |-> pend, status |-> "assert"]
                  ELSE IF pend[n] = 0
                  THEN [stack |-> st, pending_children |-> pend, status |-> "underflow"]
                  ELSE DepPushChildren(st, [pend EXCEPT ![n] = @ - 1], n, Tail(cs))
             ELSE DepPushChildren(Append(st, Edge(n, child)), pend, n, Tail(cs))

\* DepEmit without the visited check
DepEmit_Always(out, seen, n) == Append(out, n)

\* lines 92-95: if !visited.contains_key(node) { visit.push(node); ... }
DepEmit(out, seen, n) == IF n \in seen THEN out ELSE Append(out, n)

\* nothing popped, no counter inserted, no node expanded
NoWork == [pops |-> 0,
           inits |-> [k \in Keys |-> 0],
           expansions |-> [k \in Keys |-> 0]]

\* lines 76-85: one start edge per start
DepSeed ==
    /\ pc = "dep_call"
    /\ stack' = [i \in 1..Len(starts) |-> Edge(NoParent, starts[i])]
    /\ pending_children' = <<>>
    /\ visited' = {}
    /\ visit' = <<>>
    /\ work' = NoWork
    /\ pc' = "dep_loop"
    /\ UNCHANGED <<graph, starts, dotIdle, in_stack, dfsIdle, bfsIdle>>

\* lines 86-114: one iteration of while let Some(edge) = stack.pop()
DepStep ==
    /\ pc = "dep_loop"
    /\ stack # <<>>
    /\ LET edge == Last(stack)
           n == edge.child
           rest == Front(stack)
       IN  IF n \notin DOMAIN pending_children /\ ~Live(graph, n)
           THEN \* line 89: get(node).unwrap() on None
                /\ stack' = rest
                /\ pc' = "dep_panic_unwrap"
                /\ UNCHANGED <<pending_children, visited, visit>>
           ELSE LET pend == IF n \in DOMAIN pending_children
                            THEN pending_children
                            ELSE (n :> Len(children(graph, n))) @@ pending_children
                IN  IF pend[n] = 0
                    THEN \* lines 92-100
                         /\ stack' = rest
                         /\ visit' = DepEmit(visit, visited, n)
                         /\ visited' = visited \cup {n}
                         /\ IF edge.parent = NoParent
                            THEN /\ pending_children' = pend
                                 /\ pc' = "dep_loop"
                            ELSE IF pend[edge.parent] = 0
                            THEN /\ pending_children' = pend
                                 /\ pc' = "dep_underflow"
                            ELSE /\ pending_children' = [pend EXCEPT ![edge.parent] = @ - 1]
                                 /\ pc' = "dep_loop"
                    ELSE \* lines 102-113
                         LET r == DepPushChildren(Append(rest, edge), pend, n,
                                                  children(graph, n))
                         IN  /\ stack' = r.stack
                             /\ pending_children' = r.pending_children
                             /\ pc' = CASE r.status = "ok" -> "dep_loop"
                                        [] r.status = "assert" -> "dep_panic_assert"
                                        [] OTHER -> "dep_underflow"
                             /\ UNCHANGED <<visited, visit>>
    /\ LET n == Last(stack).child
           fresh == n \notin DOMAIN pending_children
           zero == IF fresh THEN children(graph, n) = <<>>
                   ELSE pending_children[n] = 0
       IN  work' =
             IF fresh /\ ~Live(graph, n)
             THEN [work EXCEPT !.pops = @ + 1]
             ELSE [pops |-> work.pops + 1,
                   inits |-> IF fresh THEN [work.inits EXCEPT ![n] = @ + 1]
                             ELSE work.inits,
                   expansions |-> IF zero THEN work.expansions
                                  ELSE [work.expansions EXCEPT ![n] = @ + 1]]
    /\ UNCHANGED <<graph, starts, dotIdle, in_stack, dfsIdle, bfsIdle>>

\* line 115: the stack is empty, visit is returned
DepReturn ==
    /\ pc = "dep_loop"
    /\ stack = <<>>
    /\ pc' = "dep_done"
    /\ UNCHANGED <<graph, starts, dotIdle, stack, in_stack, visit, depIdle, dfsIdle, bfsIdle>>

InitDep ==
    /\ InitArena(MaxEdges)
    /\ starts \in StartLists
    /\ ArenaFor(graph, Range(starts))
    /\ stack = <<>>
    /\ in_stack = {}
    /\ visit = <<>>
    /\ pending_children = <<>>
    /\ visited = {}
    /\ pc = "dep_call"
    /\ start = "A"
    /\ queue = <<>>
    /\ in_queue = {}
    /\ node = "A"
    /\ next_move = NoMove
    /\ pushed = [k \in Keys |-> 0]
    /\ calls = 0
    /\ mutations = 0
    /\ before = graph
    /\ tally = [k \in Keys |-> [m \in NextMove |-> 0]]
    /\ dot = <<>>
    /\ work = NoWork

NextDep == DepSeed \/ DepStep \/ DepReturn

SpecDep == InitDep /\ [][NextDep]_vars

InitDfs ==
    /\ InitArena(MaxEdges)
    /\ starts \in StartLists
    /\ ArenaFor(graph, Range(starts))
    /\ stack = <<>>
    /\ in_stack = {}
    /\ visit = <<>>
    /\ pending_children = <<>>
    /\ visited = {}
    /\ pc = "dfs_call"
    /\ start = "A"
    /\ queue = <<>>
    /\ in_queue = {}
    /\ node = "A"
    /\ next_move = NoMove
    /\ pushed = [k \in Keys |-> 0]
    /\ calls = 0
    /\ mutations = 0
    /\ before = graph
    /\ tally = [k \in Keys |-> [m \in NextMove |-> 0]]
    /\ dot = <<>>
    /\ work = NoWork

NextDfs == DfsSeed \/ DfsStep \/ DfsReturn

SpecDfs == InitDfs /\ [][NextDfs]_vars

\* -------------------------------------------------- breath_first_search
\* what a visitor call may do to the graph through params.graph: nothing,
\* clear the children of the visited node, or push one more child onto them
VisitorEffects(g, n) ==
    {g} \cup
    (IF Live(g, n)
     THEN {[g EXCEPT ![n] = <<>>]} \cup
          {[g EXCEPT ![n] = Append(@, c)] : c \in {k \in Keys : Edges(g) < MaxBfsEdges}}
     ELSE {})

RECURSIVE BfsPushChildren_NoSkip(_, _, _)
\* BfsPushChildren without the in_queue.contains_key check
BfsPushChildren_NoSkip(q, inq, cs) ==
    IF cs = <<>> THEN [queue |-> q, in_queue |-> inq]
    ELSE BfsPushChildren_NoSkip(Append(q, Head(cs)), inq \cup {Head(cs)}, Tail(cs))

RECURSIVE BfsPushChildren_Break(_, _, _)
\* BfsPushChildren with break in the place of continue: the loop ends at the
\* first child that is in the queue
BfsPushChildren_Break(q, inq, cs) ==
    IF cs = <<>> \/ Head(cs) \in inq THEN [queue |-> q, in_queue |-> inq]
    ELSE BfsPushChildren_Break(Append(q, Head(cs)), inq \cup {Head(cs)}, Tail(cs))

RECURSIVE BfsPushChildren(_, _, _)
\* lines 152-158: for &child in children { if in_queue.contains_key(child)
\* { continue; } queue.push_back(child); in_queue.insert(child, ()); }
BfsPushChildren(q, inq, cs) ==
    IF cs = <<>> THEN [queue |-> q, in_queue |-> inq]
    ELSE IF Head(cs) \in inq
         THEN BfsPushChildren(q, inq, Tail(cs))
         ELSE BfsPushChildren(Append(q, Head(cs)), inq \cup {Head(cs)}, Tail(cs))

\* BfsRemove with the removal forgotten: the set becomes "ever queued"
BfsRemove_Kept(inq, n) == inq

\* line 140: in_queue.remove(node)
BfsRemove(inq, n) == inq \ {n}

\* lines 135-138: the queue is seeded with start
BfsSeed ==
    /\ pc = "bfs_call"
    /\ queue' = <<start>>
    /\ in_queue' = {start}
    /\ pc' = "bfs_loop"
    /\ UNCHANGED <<graph, starts, dotIdle, stack, in_stack, visit, depIdle, dfsIdle,
                   start, node, next_move, calls, mutations, before, tally>>

\* BfsDequeue with pop_back in the place of pop_front
BfsDequeue_Back ==
    /\ pc = "bfs_loop"
    /\ queue # <<>>
    /\ calls < MaxCalls
    /\ node' = Last(queue)
    /\ queue' = Front(queue)
    /\ in_queue' = BfsRemove(in_queue, Last(queue))
    /\ pc' = "bfs_visit"
    /\ UNCHANGED <<graph, starts, dotIdle, stack, in_stack, visit, depIdle, dfsIdle,
                   start, next_move, calls, mutations, before, tally>>

\* lines 139-140: while let Some(node) = queue.pop_front(); in_queue.remove(node)
BfsDequeue ==
    /\ pc = "bfs_loop"
    /\ queue # <<>>
    /\ calls < MaxCalls
    /\ node' = Head(queue)
    /\ queue' = Tail(queue)
    /\ in_queue' = BfsRemove(in_queue, Head(queue))
    /\ pc' = "bfs_visit"
    /\ UNCHANGED <<graph, starts, dotIdle, stack, in_stack, visit, depIdle, dfsIdle,
                   start, next_move, calls, mutations, before, tally>>

\* lines 141-142: let next_move = visit(VisitParams { graph, node })
BfsVisit ==
    /\ pc = "bfs_visit"
    /\ \E g \in VisitorEffects(graph, node), m \in NextMove :
          /\ g # graph => mutations < MaxMutations
          /\ graph' = g
          /\ before' = graph
          /\ mutations' = IF g # graph THEN mutations + 1 ELSE mutations
          /\ next_move' = m
          /\ tally' = [tally EXCEPT ![node][m] = @ + 1]
    /\ calls' = calls + 1
    /\ pc' = "bfs_match"
    /\ UNCHANGED <<starts, dotIdle, stack, in_stack, visit, depIdle, dfsIdle,
                   start, queue, in_queue, node>>

\* BfsPostpone putting the node back at the head of the queue
BfsPostpone_Front ==
    /\ pc = "bfs_match"
    /\ next_move = "Postpone"
    /\ queue' = <<node>> \o queue
    /\ in_queue' = in_queue \cup {node}
    /\ pc' = "bfs_loop"
    /\ UNCHANGED <<graph, starts, dotIdle, stack, in_stack, visit, depIdle, dfsIdle,
                   start, node, next_move, calls, mutations, before, tally>>

\* BfsPostpone without in_queue.insert(node, ())
BfsPostpone_Unmarked ==
    /\ pc = "bfs_match"
    /\ next_move = "Postpone"
    /\ queue' = Append(queue, node)
    /\ in_queue' = in_queue
    /\ pc' = "bfs_loop"
    /\ UNCHANGED <<graph, starts, dotIdle, stack, in_stack, visit, depIdle, dfsIdle,
                   start, node, next_move, calls, mutations, before, tally>>

\* BfsPostpone without its continue: the node is put back and the children
\* loop runs all the same
BfsPostpone_FallsThrough ==
    /\ pc = "bfs_match"
    /\ next_move = "Postpone"
    /\ LET r == BfsPushChildren(Append(queue, node), in_queue \cup {node},
                                IF Live(graph, node) THEN children(graph, node)
                                ELSE <<>>)
       IN  /\ queue' = r.queue
           /\ in_queue' = r.in_queue
    /\ pc' = "bfs_loop"
    /\ UNCHANGED <<graph, starts, dotIdle, stack, in_stack, visit, depIdle, dfsIdle,
                   start, node, next_move, calls, mutations, before, tally>>

\* lines 144-148: NextMove::Postpone
BfsPostpone ==
    /\ pc = "bfs_match"
    /\ next_move = "Postpone"
    /\ queue' = Append(queue, node)
    /\ in_queue' = in_queue \cup {node}
    /\ pc' = "bfs_loop"
    /\ UNCHANGED <<graph, starts, dotIdle, stack, in_stack, visit, depIdle, dfsIdle,
                   start, node, next_move, calls, mutations, before, tally>>

\* BfsTerminateBranch falling through to the children loop
BfsTerminateBranch_Expands ==
    /\ pc = "bfs_match"
    /\ next_move = "TerminateBranch"
    /\ LET r == IF Live(graph, node)
                THEN BfsPushChildren(queue, in_queue, children(graph, node))
                ELSE [queue |-> queue, in_queue |-> in_queue]
       IN  /\ queue' = r.queue
           /\ in_queue' = r.in_queue
    /\ pc' = "bfs_loop"
    /\ UNCHANGED <<graph, starts, dotIdle, stack, in_stack, visit, depIdle, dfsIdle,
                   start, node, next_move, calls, mutations, before, tally>>

\* line 149: NextMove::TerminateBranch => continue
BfsTerminateBranch ==
    /\ pc = "bfs_match"
    /\ next_move = "TerminateBranch"
    /\ pc' = "bfs_loop"
    /\ UNCHANGED <<graph, starts, dotIdle, stack, in_stack, visit, depIdle, dfsIdle,
                   start, queue, in_queue, node, next_move, calls, mutations, before, tally>>

\* BfsVisitChildren skipping a node without payload instead of unwrapping
BfsVisitChildren_Skips ==
    /\ pc = "bfs_match"
    /\ next_move = "VisitChildren"
    /\ LET r == IF Live(graph, node)
                THEN BfsPushChildren(queue, in_queue, children(graph, node))
                ELSE [queue |-> queue, in_queue |-> in_queue]
       IN  /\ queue' = r.queue
           /\ in_queue' = r.in_queue
    /\ pc' = "bfs_loop"
    /\ UNCHANGED <<graph, starts, dotIdle, stack, in_stack, visit, depIdle, dfsIdle,
                   start, node, next_move, calls, mutations, before, tally>>

\* BfsVisitChildren taking the children list out of the node it expands
BfsVisitChildren_Takes ==
    /\ pc = "bfs_match"
    /\ next_move = "VisitChildren"
    /\ IF Live(graph, node)
       THEN LET r == BfsPushChildren(queue, in_queue, children(graph, node))
            IN  /\ queue' = r.queue
                /\ in_queue' = r.in_queue
                /\ graph' = [graph EXCEPT ![node] = <<>>]
                /\ pc' = "bfs_loop"
       ELSE /\ pc' = "bfs_panic"
            /\ UNCHANGED <<graph, queue, in_queue>>
    /\ UNCHANGED <<starts, dotIdle, stack, in_stack, visit, depIdle, dfsIdle,
                   start, node, next_move, calls, mutations, before, tally>>

\* lines 150-158: NextMove::VisitChildren, then the children loop
BfsVisitChildren ==
    /\ pc = "bfs_match"
    /\ next_move = "VisitChildren"
    /\ IF Live(graph, node)
       THEN LET r == BfsPushChildren(queue, in_queue, children(graph, node))
            IN  /\ queue' = r.queue
                /\ in_queue' = r.in_queue
                /\ pc' = "bfs_loop"
       ELSE \* line 152: get(node).unwrap() on None
            /\ pc' = "bfs_panic"
            /\ UNCHANGED <<queue, in_queue>>
    /\ UNCHANGED <<graph, starts, dotIdle, stack, in_stack, visit, depIdle, dfsIdle,
                   start, node, next_move, calls, mutations, before, tally>>

\* line 160: the queue is empty, the call returns
BfsReturn ==
    /\ pc = "bfs_loop"
    /\ queue = <<>>
    /\ pc' = "bfs_done"
    /\ UNCHANGED <<graph, starts, dotIdle, stack, in_stack, visit, depIdle, dfsIdle, bfsIdle>>

InitBfs ==
    /\ InitArena(MaxBfsEdges)
    /\ starts = <<>>
    /\ stack = <<>>
    /\ in_stack = {}
    /\ visit = <<>>
    /\ pending_children = <<>>
    /\ visited = {}
    /\ pc = "bfs_call"
    /\ start \in {"A"} \cup (Keys \ DOMAIN graph)
    /\ ArenaFor(graph, {start})
    /\ queue = <<>>
    /\ in_queue = {}
    /\ node = start
    /\ next_move = NoMove
    /\ pushed = [k \in Keys |-> 0]
    /\ calls = 0
    /\ mutations = 0
    /\ before = graph
    /\ tally = [k \in Keys |-> [m \in NextMove |-> 0]]
    /\ dot = <<>>
    /\ work = NoWork

NextBfs ==
    \/ BfsSeed \/ BfsDequeue \/ BfsVisit \/ BfsPostpone
    \/ BfsTerminateBranch \/ BfsVisitChildren \/ BfsReturn

SpecBfs == InitBfs /\ [][NextBfs]_vars

\* ------------------------------------------------------------- to_dot
\* the order in which self.nodes.iter() yields the keys: slot order
Slots == <<"A", "B", "C", "D">>

\* {k:?}: the Debug rendering of a key, its slot index and version
Debug(k) == CASE k = "A" -> "NodeIdx(1v1)"
              [] k = "B" -> "NodeIdx(2v1)"
              [] k = "C" -> "NodeIdx(3v1)"
              [] OTHER   -> "NodeIdx(4v1)"

\* A String is modelled as the sequence of the pieces pushed onto it, a
\* newline being a piece of its own.
\* line 36: format!("\"{i:?}\" -> \"{child:?}\"\n")
EdgeLine(i, child) == <<"\"", Debug(i), "\" -> \"", Debug(child), "\"", "\n">>

RECURSIVE DotChildren_Once(_, _, _)
\* DotChildren writing a child that is listed several times only once
DotChildren_Once(text, i, cs) ==
    IF cs = <<>> THEN text
    ELSE IF Head(cs) \in Range(Tail(cs))
         THEN DotChildren_Once(text, i, Tail(cs))
         ELSE DotChildren_Once(text \o EdgeLine(i, Head(cs)), i, Tail(cs))

RECURSIVE DotChildren(_, _, _)
\* lines 35-37: for child in node.children() { dot.push_str(&format!(...)) }
DotChildren(text, i, cs) ==
    IF cs = <<>> THEN text
    ELSE DotChildren(text \o EdgeLine(i, Head(cs)), i, Tail(cs))

RECURSIVE DotNodes(_, _, _)
\* lines 34-38: for (i, node) in self.nodes.iter(), over the live slots ks
DotNodes(text, g, ks) ==
    IF ks = <<>> THEN text
    ELSE DotNodes(IF Live(g, Head(ks))
                  THEN DotChildren(text, Head(ks), children(g, Head(ks)))
                  ELSE text,
                  g, Tail(ks))

\* lines 32-42: "digraph {\n", the edges, '}'
to_dot(g) == DotNodes(<<"digraph {", "\n">>, g, Slots) \o <<"}">>

\* lines 32-42: one call of Graph::to_dot
ToDot ==
    /\ pc = "dot_call"
    /\ dot' = to_dot(graph)
    /\ pc' = "dot_done"
    /\ UNCHANGED <<graph, starts, stack, in_stack, visit, depIdle, dfsIdle, bfsIdle>>

InitDot ==
    /\ InitArena(MaxEdges)
    /\ starts = <<>>
    /\ stack = <<>>
    /\ in_stack = {}
    /\ visit = <<>>
    /\ pending_children = <<>>
    /\ visited = {}
    /\ pc = "dot_call"
    /\ start = "A"
    /\ queue = <<>>
    /\ in_queue = {}
    /\ node = "A"
    /\ next_move = NoMove
    /\ pushed = [k \in Keys |-> 0]
    /\ calls = 0
    /\ mutations = 0
    /\ before = graph
    /\ tally = [k \in Keys |-> [m \in NextMove |-> 0]]
    /\ dot = <<>>
    /\ work = NoWork

NextDot == ToDot

SpecDot == InitDot /\ [][NextDot]_vars

\* ------------------------------------------------------- the whole crate
Init == InitDfs \/ InitDep \/ InitBfs \/ InitDot

Next == NextDfs \/ NextDep \/ NextBfs \/ NextDot

Spec == Init /\ [][Next]_vars

SpecDepFair == SpecDep /\ WF_vars(NextDep)

\* ================================================================ claims
\* position of the first occurrence of k in s
Pos(s, k) == CHOOSE i \in 1..Len(s) : s[i] = k /\ \A j \in 1..(i - 1) : s[j] # k

\* a cycle (a self-loop included) can be reached from the keys S
CycleReachable(g, S) ==
    \E k \in Reach(g, S) \cap DOMAIN g : k \in Reach(g, Range(g[k]))

\* every key reachable from S has a live payload
Resolves(g, S) == Reach(g, S) \subseteq DOMAIN g

\* the diamond A->[B,C], B->[D], C->[D]
IsDiamond(g) ==
    /\ DOMAIN g = Keys
    /\ g["A"] = <<"B", "C">> /\ g["B"] = <<"D">>
    /\ g["C"] = <<"D">> /\ g["D"] = <<>>

\* C1: dependency_order on a graph with no reachable cycle and no reachable
\* dangling key never aborts, and what it returns holds exactly the keys
\* reachable from starts, each once, every node after all of its children.
C1_DependencyOrder ==
    (~CycleReachable(graph, Range(starts)) /\ Resolves(graph, Range(starts))) =>
        /\ pc \notin {"dep_panic_unwrap", "dep_panic_assert", "dep_underflow"}
        /\ pc = "dep_done" =>
              /\ Range(visit) = Reach(graph, Range(starts))
              /\ \A k \in Range(visit) : Count(visit, k) = 1
              /\ \A k \in Range(visit) : \A c \in Range(graph[k]) :
                    Pos(visit, c) < Pos(visit, k)

\* C1 witness: the diamond, started from A twice, has been ordered
C1_Witness ==
    /\ pc = "dep_done"
    /\ IsDiamond(graph) /\ starts = <<"A", "A">>
    /\ visit = <<"D", "C", "B", "A">>

\* C2 as claimed: with a reachable cycle (all reachable keys live) the call
\* neither returns nor raises an error or abort.
C2_Original ==
    (CycleReachable(graph, Range(starts)) /\ Resolves(graph, Range(starts))) =>
        pc \notin {"dep_done", "dep_panic_unwrap", "dep_panic_assert", "dep_underflow"}

\* C2 amended: with a reachable cycle (all reachable keys live) the call never
\* returns normally, and it does not loop either: it ends in the abort of the
\* assert_eq! of line 105.
C2_CycleAborts ==
    /\ [](CycleReachable(graph, Range(starts)) => pc # "dep_done")
    /\ [](pc = "dep_panic_assert" => CycleReachable(graph, Range(starts)))
    /\ (CycleReachable(graph, Range(starts)) /\ Resolves(graph, Range(starts)))
          ~> (pc = "dep_panic_assert")

\* C2 witness: the abort on a cycle that is no self-loop
C2_Witness ==
    /\ pc = "dep_panic_assert"
    /\ \A k \in DOMAIN graph : k \notin Range(graph[k])
    /\ Resolves(graph, Range(starts))

\* C3: depth_first_search emits a key once per push (pushes happen at every
\* discovery made while the key is not on the stack), so a key can be emitted
\* more than once; on the diamond from [A] the output is A, C, D, B, D.
C3_EmittedOncePerPush ==
    /\ pc \in {"dfs_loop", "dfs_done"} =>
          \A k \in Keys : Count(visit, k) + Count(stack, k) = pushed[k]
    /\ pc = "dfs_loop" =>
          \A k \in Keys : k \in in_stack => Count(stack, k) >= 1
    /\ (pc = "dfs_done" /\ IsDiamond(graph) /\ starts = <<"A">>) =>
          visit = <<"A", "C", "D", "B", "D">>

\* C3 witness: the diamond has been traversed and D was emitted twice
C3_Witness ==
    /\ pc = "dfs_done" /\ IsDiamond(graph) /\ starts = <<"A">>
    /\ Count(visit, "D") = 2 /\ pushed["D"] = 2

\* C4 as claimed: a single-start run whose reachable keys all resolve returns
\* an output without duplicates, starting with start, holding exactly the
\* reachable keys.
C4_Original ==
    (pc = "dfs_done" /\ Len(starts) = 1 /\ Resolves(graph, Range(starts))) =>
        /\ \A k \in Range(visit) : Count(visit, k) = 1
        /\ visit[1] = starts[1]
        /\ Range(visit) = Reach(graph, Range(starts))

\* C4 amended: a single-start run that returns has start as the first element
\* of its output and exactly the reachable keys as the set of its elements;
\* a key may occur in it more than once.
C4_StartFirstAndReachable ==
    (pc = "dfs_done" /\ Len(starts) = 1) =>
        /\ Resolves(graph, Range(starts))
        /\ visit[1] = starts[1]
        /\ Range(visit) = Reach(graph, Range(starts))

\* C4 witness: a returned single-start run over at least three keys with a
\* repeated key in its output
C4_Witness ==
    /\ pc = "dfs_done" /\ Len(starts) = 1
    /\ Cardinality(Range(visit)) >= 3
    /\ \E k \in Range(visit) : Count(visit, k) > 1

\* the children that one expansion appends: in list order, those not in the
\* in-queue set, a key listed twice only at its first place
Fresh(cs, inq) ==
    LET F[i \in 0..Len(cs)] ==
            IF i = 0 THEN <<>>
            ELSE IF cs[i] \notin inq /\ \A j \in 1..(i - 1) : cs[j] # cs[i]
                 THEN Append(F[i - 1], cs[i])
                 ELSE F[i - 1]
    IN  F[Len(cs)]

\* how often the visitor has been called for key k
Visits(k) == tally[k]["Postpone"] + tally[k]["TerminateBranch"] + tally[k]["VisitChildren"]

\* C5: the visitor call and a TerminateBranch leave the queue and the in-queue
\* set as the dequeue left them, and the queue grows only when the call is
\* seeded or a Postpone or VisitChildren is carried out.
C5_TerminateBranchEnqueuesNothing ==
    [][/\ pc = "bfs_visit" => (queue' = queue /\ in_queue' = in_queue)
       /\ (pc = "bfs_match" /\ next_move = "TerminateBranch") =>
             (queue' = queue /\ in_queue' = in_queue /\ pc' = "bfs_loop")
       /\ Len(queue') > Len(queue) =>
             \/ pc = "bfs_call"
             \/ pc = "bfs_match" /\ next_move \in {"Postpone", "VisitChildren"}]_vars

\* C5 witness: back at the loop head after a TerminateBranch for a node that
\* lists a child which is not queued
C5_Witness ==
    /\ pc = "bfs_loop" /\ next_move = "TerminateBranch"
    /\ Live(graph, node)
    /\ \E c \in Range(graph[node]) : c \notin in_queue /\ c # node

\* C6: a Postpone appends the node to the tail of the queue, marks it in-queue
\* and goes back to the loop head without looking at its payload; a node whose
\* only directive so far was one Postpone is therefore still queued, so the
\* expansion of its children waits for its second dequeue.
C6_PostponeRequeues ==
    /\ [][(pc = "bfs_match" /\ next_move = "Postpone") =>
             /\ queue' = Append(queue, node)
             /\ in_queue' = in_queue \cup {node}
             /\ pc' = "bfs_loop"]_vars
    /\ [](pc = "bfs_loop" =>
             \A k \in Keys :
                (tally[k]["Postpone"] = 1 /\ Visits(k) = 1) => k \in Range(queue))

\* C6 witness: a node was postponed once, dequeued again and expanded, and its
\* child is queued now
C6_Witness ==
    /\ pc = "bfs_loop" /\ next_move = "VisitChildren"
    /\ tally[node]["Postpone"] = 1 /\ tally[node]["VisitChildren"] = 1
    /\ tally[node]["TerminateBranch"] = 0
    /\ Live(graph, node)
    /\ \E c \in Range(graph[node]) : c # node /\ c \in in_queue /\ Visits(c) = 0

\* C7: a VisitChildren for a live node appends to the tail of the queue the
\* children the node lists in the graph as the visitor left it, in list order,
\* leaving out every child that is in the queue at that moment.
C7_ChildrenReadAfterVisitor ==
    [][(pc = "bfs_match" /\ next_move = "VisitChildren" /\ Live(graph, node)) =>
          /\ queue' = queue \o Fresh(graph[node], in_queue)
          /\ in_queue' = in_queue \cup Range(graph[node])
          /\ pc' = "bfs_loop"]_vars

\* C7 witness: the visitor pushed a new child onto the visited node and that
\* child is now the tail of the queue, behind a child skipped as a repeat
C7_Witness ==
    /\ pc = "bfs_loop" /\ next_move = "VisitChildren"
    /\ Live(graph, node)
    /\ Len(graph[node]) = Len(before[node]) + 1
    /\ Last(graph[node]) \notin Range(before[node])
    /\ queue # <<>> /\ Last(queue) = Last(graph[node])
    /\ Len(before[node]) = 2 /\ before[node][1] = before[node][2]

\* C8: at every loop head no key occurs twice in the queue and the in-queue
\* set is the set of the keys in the queue.
C8_QueueSetAgree ==
    pc = "bfs_loop" =>
        /\ \A i, j \in 1..Len(queue) : queue[i] = queue[j] => i = j
        /\ in_queue = Range(queue)

\* C8 witness: a loop head with two queued keys after all three directives
\* have been returned
C8_Witness ==
    /\ pc = "bfs_loop" /\ Len(queue) >= 2
    /\ \A m \in NextMove : \E k \in Keys : tally[k][m] > 0

\* C9 as claimed: no traversal goes on, or returns, after reaching a key
\* without payload.
C9_Original ==
    /\ pc \in {"dfs_loop", "dfs_done"} => Range(visit) \subseteq DOMAIN graph
    /\ pc = "dfs_done" => Resolves(graph, Range(starts))
    /\ pc = "dep_done" => Resolves(graph, Range(starts))
    /\ pc \in {"bfs_loop", "bfs_done"} =>
          \A k \in Keys \ DOMAIN graph : Visits(k) = 0

\* C9 amended: depth_first_search and dependency_order abort when they pop a
\* key without payload and return only if every reachable key is live;
\* breath_first_search aborts on such a key only when the visitor returns
\* VisitChildren for it, and goes on after Postpone or TerminateBranch.
C9_AbortOnLookup ==
    /\ pc \in {"dfs_loop", "dfs_done"} => Range(visit) \subseteq DOMAIN graph
    /\ pc = "dfs_panic" => ~Live(graph, Last(visit))
    /\ pc = "dfs_done" => Resolves(graph, Range(starts))
    /\ pc \in {"dep_loop", "dep_done"} =>
          (DOMAIN pending_children \cup Range(visit)) \subseteq DOMAIN graph
    /\ pc = "dep_done" => Resolves(graph, Range(starts))
    /\ pc \in {"bfs_loop", "bfs_done"} =>
          \A k \in Keys \ DOMAIN graph : tally[k]["VisitChildren"] = 0
    /\ pc = "bfs_panic" => (~Live(graph, node) /\ next_move = "VisitChildren")

\* C9 witness: a breadth-first run has returned although the visitor was
\* called for a key without payload
C9_Witness ==
    /\ pc = "bfs_done"
    /\ \E k \in Keys \ DOMAIN graph :
          tally[k]["Postpone"] > 0 /\ tally[k]["TerminateBranch"] > 0

\* the graph A->[B,C], B->[], C->[B]
IsRevisit(g) ==
    /\ {"A", "B", "C"} \subseteq DOMAIN g
    /\ g["A"] = <<"B", "C">> /\ g["B"] = <<>> /\ g["C"] = <<"B">>

\* C10: from A on A->[B,C], B->[], C->[B], with VisitChildren at every call
\* and an untouched graph, the run returns after visiting B twice.
C10_NoVisitedOnce ==
    (/\ pc = "bfs_done" /\ start = "A" /\ IsRevisit(graph) /\ mutations = 0
     /\ \A k \in Keys : tally[k]["Postpone"] = 0 /\ tally[k]["TerminateBranch"] = 0)
    => (Visits("A") = 1 /\ Visits("B") = 2 /\ Visits("C") = 1)

\* C10 witness: that run has returned, B visited twice
C10_Witness ==
    /\ pc = "bfs_done" /\ start = "A" /\ IsRevisit(graph) /\ mutations = 0
    /\ tally["B"]["VisitChildren"] = 2 /\ calls = 4

\* every directive returned so far was a Postpone
OnlyPostpone ==
    \A k \in Keys : tally[k]["TerminateBranch"] = 0 /\ tally[k]["VisitChildren"] = 0

\* C11: as long as the visitor has answered Postpone at every call,
\* breath_first_search has not returned or aborted, the queue at a loop head
\* holds start (so the loop goes on), and the visitor has been called for no
\* key but start.
C11_AlwaysPostponeLoops ==
    OnlyPostpone =>
        /\ pc \notin {"bfs_done", "bfs_panic"}
        /\ pc = "bfs_loop" => queue = <<start>>
        /\ pc \in {"bfs_visit", "bfs_match"} => node = start
        /\ \A k \in Keys \ {start} : Visits(k) = 0

\* C11 witness: a loop head after three Postpones for a start that lists
\* another key as a child
C11_Witness ==
    /\ pc = "bfs_loop" /\ OnlyPostpone
    /\ tally[start]["Postpone"] >= 3
    /\ Live(graph, start)
    /\ \E c \in Range(graph[start]) : c # start

\* the lines of a text: the pieces between its newlines
Lines(text) ==
    LET L[i \in 0..Len(text)] ==
            IF i = 0 THEN << <<>> >>
            ELSE LET prev == L[i - 1]
                 IN  IF text[i] = "\n" THEN Append(prev, <<>>)
                     ELSE [prev EXCEPT ![Len(prev)] = Append(@, text[i])]
    IN  L[Len(text)]

\* the child-list entries of the arena: <<s, j>> is entry j of the node in slot s
Entries(g) ==
    {p \in (1..Len(Slots)) \X (1..Edges(g)) :
        Slots[p[1]] \in DOMAIN g /\ p[2] <= Len(g[Slots[p[1]]])}

\* the place of entry p when the entries are put in slot order and, within a
\* node, in list order
Rank(g, p) ==
    Cardinality({q \in Entries(g) : q[1] < p[1] \/ (q[1] = p[1] /\ q[2] <= p[2])})

\* C12: the text to_dot returns has the line "digraph {" first and the line
\* "}" last, with no newline after it, and between them one line
\* "<node>" -> "<child>" per child-list entry (repeated and dangling entries
\* included), in slot order and within a node in list order; so it has as many
\* edge lines as there are entries, and without entries it is "digraph {",
\* newline, "}".
C12_ToDotLines ==
    pc = "dot_done" =>
        LET ls == Lines(dot)
        IN  /\ Len(ls) = Edges(graph) + 2
            /\ ls[1] = <<"digraph {">>
            /\ ls[Len(ls)] = <<"}">>
            /\ \A p \in Entries(graph) :
                  ls[1 + Rank(graph, p)] =
                     <<"\"", Debug(Slots[p[1]]), "\" -> \"",
                       Debug(graph[Slots[p[1]]][p[2]]), "\"">>
            /\ Edges(graph) = 0 => dot = <<"digraph {", "\n", "}">>

\* C12 witness: the rendering of an arena with a repeated entry, an entry for
\* a removed key and a node without entries between two that have some
C12_Witness ==
    /\ pc = "dot_done"
    /\ "D" \notin DOMAIN graph
    /\ graph["A"] = <<"B", "B">> /\ graph["B"] = <<>> /\ graph["C"] = <<"D", "A">>
    /\ Len(Lines(dot)) = 6

\* C13: the arena changes in no step but a visitor call of
\* breath_first_search: the dequeue, Postpone, TerminateBranch and
\* child-enqueue steps leave it alone, and throughout a call of
\* depth_first_search, dependency_order or to_dot it is the arena the call
\* was given.
C13_GraphChangesOnlyInVisitor ==
    /\ [][graph' # graph => (pc = "bfs_visit" /\ pc' = "bfs_match")]_vars
    /\ [](pc \notin {"bfs_call", "bfs_loop", "bfs_visit", "bfs_match",
                     "bfs_done", "bfs_panic"} => graph = before)

\* C13 witness: a visitor call changed the arena and the child-enqueue step
\* that followed it has been taken
C13_Witness ==
    /\ pc = "bfs_loop" /\ next_move = "VisitChildren"
    /\ mutations = 1 /\ graph # before
    /\ queue # <<>>

\* C14 as claimed: depth_first_search has no run that goes on for ever.  The
\* loop is deterministic and reads nothing but the graph, the stack and
\* in_stack, so an iteration that ends with the stack and in_stack it began
\* with is repeated for ever; the claim therefore says that no iteration does.
C14_Original ==
    [][(pc = "dfs_loop" /\ pc' = "dfs_loop") =>
          <<stack', in_stack'>> # <<stack, in_stack>>]_vars

\* C15 as claimed: at every loop head of depth_first_search, whatever starts
\* is, a key is in in_stack exactly if it occurs on the stack, and no key
\* occurs on the stack twice.
C15_Original ==
    pc = "dfs_loop" =>
        /\ in_stack = Range(stack)
        /\ \A i, j \in 1..Len(stack) : stack[i] = stack[j] => i = j

\* C16: the output of depth_first_search is a pre-order: its first key is a
\* start key (the last of starts, the top of the seeded stack), and a key that
\* occurs in the output more often than in starts has, before the occurrence
\* that exceeds the start occurrences, an occurrence of a node that lists it
\* as a child.
C16_PreOrder ==
    pc \in {"dfs_loop", "dfs_done", "dfs_panic"} =>
        /\ visit # <<>> => (visit[1] \in Range(starts) /\ visit[1] = Last(starts))
        /\ \A i \in 1..Len(visit) :
              \/ Count(SubSeq(visit, 1, i), visit[i]) <= Count(starts, visit[i])
              \/ \E j \in 1..(i - 1) :
                    Live(graph, visit[j]) /\ visit[i] \in Range(graph[visit[j]])

\* C16 witness: a run from two starts has returned, and a start key was
\* emitted once more through a node that lists it
C16_Witness ==
    /\ pc = "dfs_done" /\ Len(starts) = 2
    /\ \E k \in Range(starts) : Count(visit, k) > Count(starts, k)
    /\ Cardinality(Range(visit)) >= 3

\* the number of edges on a shortest path from s to k in g, -1 if there is none
Dist(g, s, k) ==
    LET RECURSIVE Layer(_, _)
        Layer(X, d) ==
            IF k \in X THEN d
            ELSE LET Y == X \cup UNION {Range(g[x]) : x \in X \cap DOMAIN g}
                 IN  IF Y = X THEN 0 - 1 ELSE Layer(Y, d + 1)
    IN  Layer({s}, 0)

\* every directive returned so far was a VisitChildren and no visitor call
\* changed the graph
OnlyVisitChildren ==
    /\ mutations = 0
    /\ \A k \in Keys : tally[k]["Postpone"] = 0 /\ tally[k]["TerminateBranch"] = 0

\* C17: the queue of breath_first_search is strictly first-in first-out: a
\* dequeue hands the head of the queue to the visitor, the visitor is called
\* for that key, and every other step leaves the queue as it is or appends at
\* its tail.  So, with VisitChildren at every call and an untouched graph, by
\* the time a key has been visited every key nearer to start has been visited
\* too: no first visit at distance d comes after a first visit at distance d+1.
C17_Fifo ==
    /\ [][/\ (pc = "bfs_loop" /\ pc' = "bfs_visit") =>
               (node' = Head(queue) /\ queue' = Tail(queue))
          /\ ~(pc = "bfs_loop" /\ pc' = "bfs_visit") =>
               (Len(queue') >= Len(queue) /\ SubSeq(queue', 1, Len(queue)) = queue)
          /\ \A k \in Keys : tally'[k] # tally[k] => (k = node /\ pc = "bfs_visit")]_vars
    /\ [](OnlyVisitChildren =>
             \A k, j \in Reach(graph, {start}) :
                (Visits(k) > 0 /\ Dist(graph, start, j) < Dist(graph, start, k))
                    => Visits(j) > 0)

\* C17 witness: with VisitChildren only, a key two edges from start has been
\* visited, after two keys that are one edge from start
C17_Witness ==
    /\ pc = "bfs_match" /\ OnlyVisitChildren
    /\ Dist(graph, start, node) = 2 /\ Visits(node) = 1
    /\ Cardinality({k \in Keys : Dist(graph, start, k) = 1}) = 2
    /\ calls = 4

RECURSIVE Paths(_, _), PathsOver(_, _)
\* the number of paths of an acyclic graph that begin at k (the empty path
\* included), and their sum over the keys of a sequence
Paths(g, k) == IF Live(g, k) THEN 1 + PathsOver(g, g[k]) ELSE 1
PathsOver(g, ks) ==
    IF ks = <<>> THEN 0 ELSE Paths(g, Head(ks)) + PathsOver(g, Tail(ks))

\* the work a breadth-first run still has before it: the paths that begin at
\* the queued keys and at the key being visited
Potential ==
    PathsOver(graph, queue)
        + (IF pc \in {"bfs_visit", "bfs_match"} THEN Paths(graph, node) ELSE 0)

\* the run is one the termination claim is about: no cycle can be reached
\* from start, every reachable key resolves, no visitor call changed the graph
Tame ==
    /\ mutations = 0
    /\ ~CycleReachable(graph, {start})
    /\ Resolves(graph, {start})

\* C18: on a graph with no reachable cycle and no reachable dangling key, with
\* a visitor that leaves the graph alone, breath_first_search never aborts, no
\* step increases the paths still to be followed, and every TerminateBranch
\* or VisitChildren decreases them, so between two Postpones only finitely
\* many steps are taken and a run with finitely many Postpones returns; when
\* it returns after VisitChildren only, every key reachable from start has
\* been visited.
C18_BfsTerminates ==
    /\ [][(Tame /\ mutations' = 0 /\ pc # "bfs_call") =>
            /\ Potential' <= Potential
            /\ (pc = "bfs_match" /\ next_move # "Postpone") => Potential' < Potential]_vars
    /\ [](Tame => /\ pc # "bfs_panic"
                  /\ Potential >= 0
                  /\ (pc = "bfs_loop" /\ Potential = 0) => queue = <<>>)
    /\ []((pc = "bfs_done" /\ OnlyVisitChildren) =>
             \A k \in Reach(graph, {start}) : Visits(k) >= 1)

\* C18 witness: a run over four keys has returned, VisitChildren at every call
C18_Witness ==
    /\ pc = "bfs_done" /\ Tame /\ OnlyVisitChildren
    /\ Cardinality(Reach(graph, {start})) = 4
    /\ \A k \in Reach(graph, {start}) : Visits(k) >= 1

\* C19: on a graph with no cycle reachable from starts, dependency_order
\* never fails the assert_eq! of line 105 and never decrements a counter that
\* is 0; at every loop head the counter of a node is the number of its
\* child-list entries not yet resolved, which are the edges on the stack that
\* name it as parent; and an edge on top of the stack whose node has a counter
\* already finds that counter at 0.
C19_CountersSound ==
    ~CycleReachable(graph, Range(starts)) =>
        /\ pc \notin {"dep_panic_assert", "dep_underflow"}
        /\ pc = "dep_loop" =>
              /\ \A n \in DOMAIN pending_children :
                    pending_children[n] =
                       Cardinality({i \in 1..Len(stack) : stack[i].parent = n})
              /\ (stack # <<>> /\ Last(stack).child \in DOMAIN pending_children) =>
                    pending_children[Last(stack).child] = 0

\* C19 witness: the edge of a node that was expanded with two or more
\* children is on top of the stack again with its counter back at 0, a child
\* of it that was expanded itself having been resolved and emitted
C19_Witness ==
    /\ pc = "dep_loop" /\ stack # <<>>
    /\ ~CycleReachable(graph, Range(starts))
    /\ LET n == Last(stack).child
       IN  /\ work.expansions[n] = 1
           /\ Len(graph[n]) >= 2
           /\ pending_children[n] = 0
           /\ \E c \in Range(graph[n]) : work.expansions[c] = 1 /\ Count(stack, Edge(n, c)) = 0
                                         /\ Count(visit, c) = 1
           /\ Len(visit) >= 3

\* C20: in every run of dependency_order, on any graph, the counter of a node
\* is inserted at most once and its children are expanded at most once, and
\* the loop has popped at most twice as many edges as there are start
\* entries and child-list entries.
C20_BoundedWork ==
    pc \in {"dep_loop", "dep_done", "dep_panic_unwrap", "dep_panic_assert",
            "dep_underflow"} =>
        /\ \A k \in Keys : work.inits[k] <= 1 /\ work.expansions[k] <= 1
        /\ work.pops <= 2 * (Len(starts) + Edges(graph))

\* C20 witness: a run from two starts has returned after more pops than it
\* emitted keys, a key listed by two nodes having been expanded once
C20_Witness ==
    /\ pc = "dep_done" /\ Len(starts) = 2
    /\ work.pops >= 7 /\ work.pops > Len(visit)
    /\ \E k \in Keys :
          /\ work.expansions[k] = 1
          /\ Cardinality({p \in DOMAIN graph : k \in Range(graph[p])}) = 2

====
